---- MODULE Spec2Model ----
(***************************************************************************)
(* graphql-loader (src/loader.ts): a webpack loader that expands #import   *)
(* directives of a GraphQL source, removes duplicate fragments, strips     *)
(* source locations, optionally prunes unused fragments and validates.     *)
(***************************************************************************)
EXTENDS Naturals, Sequences, FiniteSets, TLC

VARIABLES
    document,        \* the DocumentNode's definitions being transformed
    before,          \* the definitions as they were before the last transform
    stage,           \* which transform was applied last
    tree,            \* a generic JS value handed to removeSourceLocations
    loader,          \* the LoaderContext: context, query, and what fs and resolve answer
    source,          \* the source text handed to the loader, with its parse
    pc,              \* where the loader function is suspended
    currentContext,  \* findSchemaFile's currentContext
    options,         \* what loadOptions returned
    tasks,           \* the loadSource invocations, in creation order
    deps,            \* the paths given to loader.addDependency
    validationErrors,\* what graphqlValidate returned
    emitted,         \* the errors given to this.emitError, in order
    result           \* what the done callback was called with

docVars == <<document, before, stage, tree>>
loaderVars ==
    <<loader, source, pc, currentContext, options, tasks, deps,
      validationErrors, emitted, result>>
vars == <<docVars, loaderVars>>

-----------------------------------------------------------------------------
(* JavaScript values: primitives, arrays and objects, tagged by type.      *)

Undefined == [t |-> "undefined"]
Null == [t |-> "null"]
Str(s) == [t |-> "string", v |-> s]
Bool(b) == [t |-> "boolean", v |-> b]
Arr(s) == [t |-> "array", v |-> s]
Obj(r) == [t |-> "object", v |-> r]

\* JS truthiness: `if (x)`, `x && ...`
Truthy(x) ==
    CASE x.t = "undefined" -> FALSE
      [] x.t = "null" -> FALSE
      [] x.t = "boolean" -> x.v
      [] x.t = "string" -> x.v # ""
      [] OTHER -> TRUE

\* property read o.k : undefined when the key is absent
Get(o, k) == IF o.t = "object" /\ k \in DOMAIN o.v THEN o.v[k] ELSE Undefined

-----------------------------------------------------------------------------
(* The AST nodes the external parser (graphql/language/parser) produces.   *)

NameNode(n) == Obj([kind |-> Str("Name"), value |-> Str(n)])
FragmentSpread(n) == Obj([kind |-> Str("FragmentSpread"), name |-> NameNode(n)])
LeafField(n) == Obj([kind |-> Str("Field"), name |-> NameNode(n), selectionSet |-> Null])
SelectionSet(sels) == Obj([kind |-> Str("SelectionSet"), selections |-> Arr(sels)])
Field(n, sels) ==
    Obj([kind |-> Str("Field"), name |-> NameNode(n), selectionSet |-> SelectionSet(sels)])
InlineFragment(sels) ==
    Obj([kind |-> Str("InlineFragment"), selectionSet |-> SelectionSet(sels)])
OperationDefinition(n, sels) ==
    Obj([kind |-> Str("OperationDefinition"), operation |-> Str("query"),
         name |-> NameNode(n), selectionSet |-> SelectionSet(sels)])
FragmentDefinition(n, sels) ==
    Obj([kind |-> Str("FragmentDefinition"), name |-> NameNode(n),
         selectionSet |-> SelectionSet(sels)])

Kind(node) == Get(node, "kind").v
NameValue(node) == Get(Get(node, "name"), "value").v
IsFragmentDefinition(def) == Kind(def) = "FragmentDefinition"
IsOperationDefinition(def) == Kind(def) = "OperationDefinition"

-----------------------------------------------------------------------------
(* removeDuplicateFragments                                                *)

\* the filter callback, with the usedName set threaded through the pass
RECURSIVE DedupPass(_, _)
DedupPassAnyKind(defs, usedName) ==
    IF defs = <<>> THEN <<>>
    ELSE LET def == Head(defs)
             name == NameValue(def)
         IN  IF name \in usedName THEN DedupPass(Tail(defs), usedName)
             ELSE <<def>> \o DedupPass(Tail(defs), usedName \cup {name})

DedupPass(defs, usedName) ==
    IF defs = <<>> THEN <<>>
    ELSE LET def == Head(defs)
             name == NameValue(def)
         IN  IF ~IsFragmentDefinition(def)
             THEN <<def>> \o DedupPass(Tail(defs), usedName)
             ELSE IF name \in usedName THEN DedupPass(Tail(defs), usedName)
             ELSE <<def>> \o DedupPass(Tail(defs), usedName \cup {name})

removeDuplicateFragments(defs) == DedupPass(defs, {})

-----------------------------------------------------------------------------
(* removeUnusedFragments                                                   *)

\* traverse(selectionSet): the names added to usedFragments
RECURSIVE traverse(_)
RECURSIVE traverseSelections(_)
traverseTopLevelOnly(selectionSet) ==
    LET sels == Get(selectionSet, "selections").v
    IN  {NameValue(sels[i]) : i \in {j \in 1..Len(sels) : Kind(sels[j]) = "FragmentSpread"}}

traverse(selectionSet) == traverseSelections(Get(selectionSet, "selections").v)

traverseSelections(sels) ==
    IF sels = <<>> THEN {}
    ELSE LET selection == Head(sels)
             here == IF Kind(selection) = "FragmentSpread"
                     THEN {NameValue(selection)}
                     ELSE IF Truthy(Get(selection, "selectionSet"))
                     THEN traverse(Get(selection, "selectionSet"))
                     ELSE {}
         IN  here \cup traverseSelections(Tail(sels))

\* findFragmentSpreads(doc): usedFragments after walking every definition
findFragmentSpreads(defs) ==
    UNION {traverse(Get(defs[i], "selectionSet")) :
              i \in {j \in 1..Len(defs) :
                        IsOperationDefinition(defs[j]) \/ IsFragmentDefinition(defs[j])}}

\* the filter of lines 157-160
SweepUnused(defs) ==
    LET usedFragments == findFragmentSpreads(defs)
        keep(def) == ~IsFragmentDefinition(def) \/ NameValue(def) \in usedFragments
    IN  SelectSeq(defs, keep)

RECURSIVE removeUnusedFragments(_)
removeUnusedFragmentsOnePass(defs) == SweepUnused(defs)

removeUnusedFragments(defs) ==
    LET kept == SweepUnused(defs)
    IN  IF Len(defs) # Len(kept) THEN removeUnusedFragments(kept) ELSE kept

-----------------------------------------------------------------------------
(* removeSourceLocations                                                   *)

Loc == Obj([start |-> Str("0"), end |-> Str("9")])

RECURSIVE removeSourceLocations(_)
removeSourceLocationsShallow(value) ==
    IF value.t # "object" THEN value
    ELSE Obj([k \in DOMAIN value.v \ {"loc"} |-> value.v[k]])

removeSourceLocations(value) ==
    IF value.t # "object" THEN value
    ELSE LET keys == IF Truthy(Get(value, "loc"))
                     THEN DOMAIN value.v \ {"loc"}
                     ELSE DOMAIN value.v
             walk(child) ==
                 CASE child.t = "array" ->
                        Arr([i \in 1..Len(child.v) |-> removeSourceLocations(child.v[i])])
                   [] child.t = "object" -> removeSourceLocations(child)
                   [] OTHER -> child
         IN  Obj([k \in keys |-> walk(value.v[k])])

\* removeSourceLocations(val) dereferences val.loc: a null or undefined array
\* element raises a TypeError
RECURSIVE stripThrows(_)
stripThrows(value) ==
    CASE value.t \in {"null", "undefined"} -> TRUE
      [] value.t = "object" ->
           \E k \in DOMAIN value.v \ (IF Truthy(Get(value, "loc")) THEN {"loc"} ELSE {}) :
               LET child == value.v[k]
               IN  CASE child.t = "array" ->
                          \E i \in 1..Len(child.v) : stripThrows(child.v[i])
                     [] child.t = "object" -> stripThrows(child)
                     [] OTHER -> FALSE
      [] OTHER -> FALSE

-----------------------------------------------------------------------------
(* The document transforms applied to bounded input documents.             *)

\* no loader invocation is in progress
LoaderIdle ==
    /\ loader = Null
    /\ source = Null
    /\ pc = "idle"
    /\ currentContext = <<>>
    /\ options = Null
    /\ tasks = <<>>
    /\ deps = {}
    /\ validationErrors = <<>>
    /\ emitted = <<>>
    /\ result = [kind |-> "none"]

MaxDefs == 3

FragmentNames == {"A", "B", "C"}
SpreadLists == {<<>>, <<"A">>, <<"B">>, <<"C">>}
NestedSpreadLists == {<<"A">>}

\* { id ...X }
FlatSelections(names) ==
    <<LeafField("id")>> \o [i \in 1..Len(names) |-> FragmentSpread(names[i])]
\* { f { ... on T { id ...X } } }
NestedSelections(names) == <<Field("f", <<InlineFragment(FlatSelections(names))>>)>>

SelectionLists ==
    {FlatSelections(l) : l \in SpreadLists}
        \cup {NestedSelections(l) : l \in NestedSpreadLists}

DefCatalogue ==
    {OperationDefinition("Q", sels) : sels \in SelectionLists}
        \cup {FragmentDefinition(n, sels) : n \in FragmentNames, sels \in SelectionLists}

DocInputs == UNION {[1..n -> DefCatalogue] : n \in 0..MaxDefs}

InitDoc ==
    /\ document \in DocInputs
    /\ before = document
    /\ stage = "input"
    /\ tree = Null
    /\ LoaderIdle

\* removeDuplicateFragments(document), line 241
Dedup ==
    /\ stage = "input"
    /\ before' = document
    /\ document' = removeDuplicateFragments(document)
    /\ stage' = "deduped"
    /\ UNCHANGED <<tree, loaderVars>>

\* removeUnusedFragments(document), line 245
Prune ==
    /\ stage \in {"input", "deduped"}
    /\ before' = document
    /\ document' = removeUnusedFragments(document)
    /\ stage' = "pruned"
    /\ UNCHANGED <<tree, loaderVars>>

\* removeUnusedFragments applied to its own result
PruneAgain ==
    /\ stage = "pruned"
    /\ document' = removeUnusedFragments(document)
    /\ stage' = "pruned2"
    /\ UNCHANGED <<before, tree, loaderVars>>

NextDoc == Dedup \/ Prune \/ PruneAgain

SpecDoc == InitDoc /\ [][NextDoc]_vars

-----------------------------------------------------------------------------
(* Reference notions the claims are stated with.                           *)

Range(s) == {s[i] : i \in 1..Len(s)}

Count(d, s) == Cardinality({i \in 1..Len(s) : s[i] = d})

\* the subsequence of s at the indices in K, in order
RECURSIVE SubSeqAt(_, _)
SubSeqAt(s, K) ==
    IF s = <<>> THEN <<>>
    ELSE LET front == SubSeqAt(SubSeq(s, 1, Len(s) - 1), K)
         IN  IF Len(s) \in K THEN Append(front, s[Len(s)]) ELSE front

\* every fragment name spread anywhere below a node
RECURSIVE SpreadsBelow(_)
SpreadsBelow(node) ==
    IF Kind(node) = "FragmentSpread" THEN {NameValue(node)}
    ELSE LET ss == Get(node, "selectionSet")
         IN  IF ss.t # "object" THEN {}
             ELSE UNION {SpreadsBelow(ss.v.selections.v[i]) :
                            i \in 1..Len(ss.v.selections.v)}

\* names reachable from the operations' selection sets in at most n further hops
RECURSIVE ReachableIn(_, _)
ReachableIn(defs, n) ==
    IF n = 0
    THEN UNION {SpreadsBelow(defs[i]) :
                   i \in {j \in 1..Len(defs) : IsOperationDefinition(defs[j])}}
    ELSE LET r == ReachableIn(defs, n - 1)
         IN  r \cup UNION {SpreadsBelow(defs[i]) :
                              i \in {j \in 1..Len(defs) :
                                        IsFragmentDefinition(defs[j])
                                            /\ NameValue(defs[j]) \in r}}

ReachableFromOperations(defs) == ReachableIn(defs, Len(defs))

-----------------------------------------------------------------------------
\* C2: removeDuplicateFragments returns the subsequence of its input that keeps
\* every operation definition and, of the fragment definitions, exactly those
\* with no earlier fragment definition of the same name, in the input's order.
C2_DedupKeepsEarliest ==
    stage = "deduped" =>
        document = SubSeqAt(before,
            {i \in 1..Len(before) :
                IsFragmentDefinition(before[i]) =>
                    ~\E j \in 1..(i - 1) :
                        /\ IsFragmentDefinition(before[j])
                        /\ NameValue(before[j]) = NameValue(before[i])})

\* a later fragment with another body was dropped between two kept operations
C2_Witness ==
    /\ stage = "deduped"
    /\ Len(before) = 3
    /\ Len(document) = 2
    /\ IsFragmentDefinition(before[1])
    /\ IsFragmentDefinition(before[2])
    /\ before[1] # before[2]
    /\ IsOperationDefinition(before[3])
    /\ document = <<before[1], before[3]>>

\* C3: after removeUnusedFragments every fragment definition left in the
\* document is transitively reachable from some operation's selection set.
C3_RetainedReachable ==
    stage = "pruned" =>
        \A i \in 1..Len(document) :
            IsFragmentDefinition(document[i]) =>
                NameValue(document[i]) \in ReachableFromOperations(document)

\* C4: removeUnusedFragments removes no operation definition and no fragment
\* definition whose name is reachable from an operation, at any nesting depth.
C4_ReachableKept ==
    stage = "pruned" =>
        \A d \in Range(before) :
            (IsOperationDefinition(d)
                \/ NameValue(d) \in ReachableFromOperations(before))
                => Count(d, document) = Count(d, before)

\* a fragment spread only inside a field's inline fragment survived while an
\* unused fragment was removed
C4_Witness ==
    /\ stage = "pruned"
    /\ Len(before) = 3
    /\ Len(document) = 2
    /\ IsOperationDefinition(document[1])
    /\ Get(document[1], "selectionSet") = SelectionSet(NestedSelections(<<"A">>))
    /\ IsFragmentDefinition(document[2])
    /\ NameValue(document[2]) = "A"

\* C9: applying removeUnusedFragments to its own result changes nothing: the
\* second result is the first one, removeUnusedFragments(before).
C9_PruneIdempotent ==
    stage = "pruned2" => document = removeUnusedFragments(before)

\* the first application needed two removing passes and kept something
C9_Witness ==
    /\ stage = "pruned2"
    /\ Len(SweepUnused(before)) < Len(before)
    /\ Len(document) < Len(SweepUnused(before))
    /\ document # <<>>

-----------------------------------------------------------------------------
(* removeSourceLocations applied to bounded generic trees: objects that    *)
(* may carry a loc, with primitive, object and array children.             *)

MaxDepth == 2

LeafObjects ==
    LET bare == {[kind |-> Str("Name"), value |-> v] : v \in {Null, Str("x")}}
    IN  {Obj(r) : r \in bare} \cup {Obj(r @@ ("loc" :> Loc)) : r \in bare}

RECURSIVE TreesOfDepth(_)
TreesOfDepth(d) ==
    IF d = 0 THEN LeafObjects
    ELSE LET sub == TreesOfDepth(d - 1)
             arrays == {<<x>> : x \in sub}
                           \cup {<<x, l>> : x \in sub, l \in LeafObjects}
                           \cup {<<l, x>> : x \in sub, l \in LeafObjects}
             bare == {[child |-> x, block |-> Bool(FALSE)] : x \in sub}
                         \cup {[items |-> Arr(a)] : a \in arrays}
         IN  {Obj(r) : r \in bare} \cup {Obj(r @@ ("loc" :> Loc)) : r \in bare}

InitStrip ==
    /\ tree \in UNION {TreesOfDepth(d) : d \in 0..MaxDepth}
    /\ before = tree
    /\ stage = "tree"
    /\ document = <<>>
    /\ LoaderIdle

\* removeSourceLocations(document), line 242
Strip ==
    /\ stage = "tree"
    /\ before' = tree
    /\ tree' = removeSourceLocations(tree)
    /\ stage' = IF stripThrows(tree) THEN "TypeError" ELSE "stripped"
    /\ UNCHANGED <<document, loaderVars>>

NextStrip == Strip

SpecStrip == InitStrip /\ [][NextStrip]_vars

\* some object at some depth below value has a loc attribute
RECURSIVE HasLoc(_)
HasLoc(value) ==
    CASE value.t = "object" ->
           "loc" \in DOMAIN value.v \/ \E k \in DOMAIN value.v : HasLoc(value.v[k])
      [] value.t = "array" -> \E i \in 1..Len(value.v) : HasLoc(value.v[i])
      [] OTHER -> FALSE

\* the number of nodes carrying a loc
RECURSIVE LocCount(_)
RECURSIVE SumOver(_, _)
SumOver(f, S) ==
    IF S = {} THEN 0
    ELSE LET k == CHOOSE x \in S : TRUE IN f[k] + SumOver(f, S \ {k})

LocCount(value) ==
    CASE value.t = "object" ->
           (IF "loc" \in DOMAIN value.v THEN 1 ELSE 0)
               + SumOver([k \in DOMAIN value.v \ {"loc"} |-> LocCount(value.v[k])],
                         DOMAIN value.v \ {"loc"})
      [] value.t = "array" ->
           SumOver([i \in 1..Len(value.v) |-> LocCount(value.v[i])], 1..Len(value.v))
      [] OTHER -> 0

\* C7: after removeSourceLocations no node at any depth has a loc attribute,
\* and the walk ends without a TypeError on primitive leaf values.
C7_NoLocLeft ==
    /\ stage # "TypeError"
    /\ stage = "stripped" => ~HasLoc(tree)

\* a tree with a loc on the root, on an array element and on a nested object,
\* with null leaves, was stripped
C7_Witness ==
    /\ stage = "stripped"
    /\ LocCount(before) >= 3
    /\ "items" \in DOMAIN before.v
    /\ \E i \in 1..Len(before.v.items.v) :
          LET e == before.v.items.v[i]
          IN  "child" \in DOMAIN e.v /\ e.v.child.v.value = Null /\ HasLoc(e.v.child)
    /\ ~HasLoc(tree)

-----------------------------------------------------------------------------
(* extractImports: the scan of the source text for #import lines.          *)
(* Text is a sequence of one-character strings.                            *)

\* source.split(/(\r\n|\r|\n)/): the lines and, between them, the separators
RECURSIVE SplitLinesFrom(_, _)
SplitLinesFrom(text, line) ==
    IF text = <<>> THEN <<line>>
    ELSE IF Len(text) >= 2 /\ text[1] = "\r" /\ text[2] = "\n"
    THEN <<line, <<"\r", "\n">>>> \o SplitLinesFrom(SubSeq(text, 3, Len(text)), <<>>)
    ELSE IF text[1] \in {"\r", "\n"}
    THEN <<line, <<text[1]>>>> \o SplitLinesFrom(Tail(text), <<>>)
    ELSE SplitLinesFrom(Tail(text), Append(line, text[1]))

SplitLines(text) == SplitLinesFrom(text, <<>>)

\* String.prototype.split(" ")
RECURSIVE SplitOnSpaceFrom(_, _)
SplitOnSpaceFrom(text, token) ==
    IF text = <<>> THEN <<token>>
    ELSE IF text[1] = " "
    THEN <<token>> \o SplitOnSpaceFrom(Tail(text), <<>>)
    ELSE SplitOnSpaceFrom(Tail(text), Append(token, text[1]))

SplitOnSpace(text) == SplitOnSpaceFrom(text, <<>>)

Quotes == {"\"", "'"}

\* token.match(/^[\"\'](.+)[\"\']/): group 1 of the greedy match, or no match
MatchQuotedPath(token) ==
    LET closing == {j \in 3..Len(token) : token[j] \in Quotes}
    IN  IF Len(token) >= 3 /\ token[1] \in Quotes /\ closing # {}
        THEN [matched |-> TRUE,
              path |-> SubSeq(token, 2, (CHOOSE j \in closing : \A k \in closing : k <= j) - 1)]
        ELSE [matched |-> FALSE, path |-> <<>>]

\* the forEach callback on one line, lines 48-77
ScanLineNoThrow(line) ==
    IF line = <<>> \/ line[1] # "#" THEN [kind |-> "skip"]
    ELSE LET comment == SplitOnSpace(Tail(line))
         IN  IF comment[1] # <<"i", "m", "p", "o", "r", "t">> THEN [kind |-> "skip"]
             ELSE IF Len(comment) < 2 \/ ~MatchQuotedPath(comment[2]).matched
             THEN [kind |-> "skip"]
             ELSE [kind |-> "import", filePath |-> MatchQuotedPath(comment[2]).path]

ScanLine(line) ==
    IF line = <<>> \/ line[1] # "#" THEN [kind |-> "skip"]
    ELSE LET comment == SplitOnSpace(Tail(line))
             filePathMatch == MatchQuotedPath(comment[2])
         IN  IF comment[1] # <<"i", "m", "p", "o", "r", "t">> THEN [kind |-> "skip"]
             ELSE IF Len(comment) < 2 \/ ~filePathMatch.matched
             THEN [kind |-> "throw"]
             ELSE [kind |-> "import", filePath |-> filePathMatch.path]

\* lines.forEach(...): the resolutions launched, in order, and whether the scan threw
RECURSIVE ScanLines(_, _)
ScanLines(lines, launched) ==
    IF lines = <<>> THEN [threw |-> FALSE, filePaths |-> launched]
    ELSE LET r == ScanLine(Head(lines))
         IN  CASE r.kind = "throw" -> [threw |-> TRUE, filePaths |-> launched]
               [] r.kind = "import" -> ScanLines(Tail(lines), Append(launched, r.filePath))
               [] OTHER -> ScanLines(Tail(lines), launched)

Scan(text) == ScanLines(SplitLines(text), <<>>)

\* an Error with its message and, for the schema search, what the message names
Error(message) == [message |-> message, schemaPath |-> "", context |-> <<>>]
NoError == Error("")
MalformedImportError == Error("#import statement must specify a quoted file path")
SyntaxError == Error("Syntax Error")
ResolveError == Error("Can't resolve")
ReadError == Error("ENOENT")
JsonError == Error("Unexpected token in JSON")
SchemaOptionError == Error("schema option must be passed if validate is true")

-----------------------------------------------------------------------------
(* loadSource / extractImports as concurrent tasks.  Each callback of      *)
(* loader.resolve and fs.readFile is one step; the promise continuations   *)
(* it triggers (microtasks) run to completion within the step.             *)

MaxTasks == 5

MainFile == <<"<", "s", "o", "u", "r", "c", "e", ">">>

\* what loader.resolve answers for a quoted path: the absolute path
ResolvedPath(filePath) == <<"/">> \o filePath

Resolves(filePath) == filePath \in DOMAIN loader.files /\ loader.files[filePath].resolves

\* the text and parse of what readFile(loader, file) returns
Content(file) == IF file = MainFile THEN source ELSE loader.files[Tail(file)].source

\* lines 86-91: document.definitions followed by each node's definitions in order
RECURSIVE FlattenDefinitions(_)
FlattenDefinitions(nodes) ==
    IF nodes = <<>> THEN <<>> ELSE Head(nodes) \o FlattenDefinitions(Tail(nodes))

MergeImportsReversed(definitions, nodes) ==
    definitions \o FlattenDefinitions([i \in 1..Len(nodes) |-> nodes[Len(nodes) + 1 - i]])

MergeDefinitions(definitions, nodes) == definitions \o FlattenDefinitions(nodes)

\* loadSource(loader, content) up to its first suspension: graphqlParse, then
\* the synchronous scan of extractImports
NewTaskOncePerFile(file, parent, slot) ==
    LET src == Content(file)
        scan == Scan(src.text)
        seen == \E u \in 1..Len(tasks) : tasks[u].file = file
        n == IF src.parse.ok /\ ~seen THEN Len(scan.filePaths) ELSE 0
        base == [file |-> file, parent |-> parent, slot |-> slot,
                 filePaths |-> IF n = 0 THEN <<>> ELSE scan.filePaths,
                 resolved |-> [i \in 1..n |-> "pending"],
                 contents |-> [i \in 1..n |-> "none"],
                 nodes |-> [i \in 1..n |-> 0],
                 definitions |-> <<>>, error |-> NoError, status |-> "resolving"]
    IN  IF ~src.parse.ok
        THEN [base EXCEPT !.status = "rejected", !.error = SyntaxError]
        ELSE IF scan.threw
        THEN [base EXCEPT !.status = "rejected", !.error = MalformedImportError]
        ELSE IF n = 0
        THEN [base EXCEPT !.status = "resolved", !.definitions = src.parse.definitions]
        ELSE [base EXCEPT !.definitions = src.parse.definitions]

NewTask(file, parent, slot) ==
    LET src == Content(file)
        scan == Scan(src.text)
        n == IF src.parse.ok THEN Len(scan.filePaths) ELSE 0
        base == [file |-> file, parent |-> parent, slot |-> slot,
                 filePaths |-> IF src.parse.ok THEN scan.filePaths ELSE <<>>,
                 resolved |-> [i \in 1..n |-> "pending"],
                 contents |-> [i \in 1..n |-> "none"],
                 nodes |-> [i \in 1..n |-> 0],
                 definitions |-> <<>>, error |-> NoError, status |-> "resolving"]
    IN  IF ~src.parse.ok
        THEN [base EXCEPT !.status = "rejected", !.error = SyntaxError]
        ELSE IF scan.threw
        THEN [base EXCEPT !.status = "rejected", !.error = MalformedImportError]
        ELSE IF n = 0
        THEN [base EXCEPT !.status = "resolved", !.definitions = src.parse.definitions]
        ELSE [base EXCEPT !.definitions = src.parse.definitions]

\* Promise.all(nodes) of the parent of t, and the awaits above it
RECURSIVE Settle(_, _)
Settle(ts, t) ==
    LET p == ts[t].parent
    IN  IF p = 0 THEN ts
        ELSE IF ts[p].status # "loading" THEN ts
        ELSE IF ts[t].status = "rejected"
        THEN Settle([ts EXCEPT ![p].status = "rejected", ![p].error = ts[t].error], p)
        ELSE IF \A i \in 1..Len(ts[p].nodes) : ts[ts[p].nodes[i]].status = "resolved"
        THEN Settle([ts EXCEPT ![p].status = "resolved",
                               ![p].definitions =
                                   MergeDefinitions(ts[p].definitions,
                                       [i \in 1..Len(ts[p].nodes) |->
                                           ts[ts[p].nodes[i]].definitions])], p)
        ELSE ts

\* lines 82-84: contents.map(content => loadSource(loader, content)).  A child
\* that throws in graphqlParse rejects at once, one that throws in the scan
\* rejects a continuation later, so Promise.all sees the parse errors first.
SpawnChildren(ts, t) ==
    LET n == Len(ts[t].filePaths)
        children == [i \in 1..n |-> NewTask(ResolvedPath(ts[t].filePaths[i]), t, i)]
        ts1 == [ts EXCEPT ![t].status = "loading",
                          ![t].nodes = [i \in 1..n |-> Len(ts) + i]] \o children
        parseErrors == {i \in 1..n : children[i].error = SyntaxError}
        rejected == {i \in 1..n : children[i].status = "rejected"}
        candidates == IF parseErrors # {} THEN parseErrors ELSE rejected
        first == CHOOSE i \in candidates : \A j \in candidates : i <= j
    IN  IF rejected # {} THEN Settle(ts1, Len(ts) + first) ELSE Settle(ts1, Len(ts) + 1)

-----------------------------------------------------------------------------
(* The loader function, lines 226-264.                                     *)

MaxErrors == 2

ValidationErrorKinds == {"KnownFragmentNames", "NoUnusedFragments"}

\* what graphqlValidate may return
ErrorLists == UNION {[1..n -> ValidationErrorKinds] : n \in 0..MaxErrors}

\* path.join(dir, name) and path.dirname(dir), directories as name sequences
Join(dir, name) == Append(dir, name)
Dirname(dir) == IF dir = <<>> THEN <<>> ELSE SubSeq(dir, 1, Len(dir) - 1)

SchemaNotFound(schemaPath, context) ==
    [message |-> "Could not find schema file", schemaPath |-> schemaPath,
     context |-> context]

\* one turn of the while loop of findSchemaFile, lines 208-223; answer is
\* what fs.stat gives for fileName
FindSchemaStepNamesLast(cur, context, schemaPath, answer) ==
    IF answer = "file" THEN [kind |-> "return", fileName |-> Join(cur, schemaPath)]
    ELSE IF Dirname(cur) = cur
    THEN [kind |-> "throw", error |-> SchemaNotFound(schemaPath, cur)]
    ELSE [kind |-> "continue", currentContext |-> Dirname(cur)]

FindSchemaStep(cur, context, schemaPath, answer) ==
    IF answer = "file" THEN [kind |-> "return", fileName |-> Join(cur, schemaPath)]
    ELSE IF Dirname(cur) = cur
    THEN [kind |-> "throw", error |-> SchemaNotFound(schemaPath, context)]
    ELSE [kind |-> "continue", currentContext |-> Dirname(cur)]

\* lines 189-196
ReturnedOptions(query, schema) ==
    [schema |-> schema,
     output |-> IF query.output = "" \/ query.output = "string"
                THEN "string" ELSE "document",
     removeUnusedFragments |-> query.removeUnusedFragments]

\* graphqlPrint: the text of each definition, which holds no location
RECURSIVE PrintSelections(_)
PrintSelections(sels) ==
    IF sels = <<>> THEN <<>>
    ELSE LET sel == Head(sels)
             inner == IF Truthy(Get(sel, "selectionSet"))
                      THEN <<"{">> \o PrintSelections(Get(sel, "selectionSet").v.selections.v)
                               \o <<"}">>
                      ELSE <<>>
             head == CASE Kind(sel) = "FragmentSpread" -> <<"...", NameValue(sel)>>
                       [] Kind(sel) = "InlineFragment" -> <<"...">>
                       [] OTHER -> <<NameValue(sel)>>
         IN  head \o inner \o PrintSelections(Tail(sels))

graphqlPrint(defs) ==
    [i \in 1..Len(defs) |->
        <<IF IsFragmentDefinition(defs[i]) THEN "fragment" ELSE "query", NameValue(defs[i]), "{">>
            \o PrintSelections(Get(defs[i], "selectionSet").v.selections.v) \o <<"}">>]

\* lines 256-260
ModuleExports(output, defs) ==
    [kind |-> "ok",
     module |-> IF output = "document"
                THEN [exports |-> "document", definitions |-> defs, text |-> <<>>]
                ELSE [exports |-> "string", definitions |-> <<>>, text |-> graphqlPrint(defs)]]

\* lines 241-246
ProcessDocument(defs, opts) ==
    LET deduped == removeDuplicateFragments(defs)
        stripped == removeSourceLocations(
                        Obj([kind |-> Str("Document"), definitions |-> Arr(deduped),
                             loc |-> Loc])).v.definitions.v
    IN  IF opts.removeUnusedFragments THEN removeUnusedFragments(stripped) ELSE stripped

\* validationErrors.forEach(err => this.emitError(err)), lines 251-253
emitFirstErrorOnly(sofar, errors) ==
    IF errors = <<>> THEN sofar ELSE Append(sofar, Head(errors))

emitErrors(sofar, errors) == sofar \o errors

\* the loader function from `await loadSource` on, lines 240-263, given the
\* tasks as the step leaves them
Continue(ts, opts) ==
    IF ts[1].status = "rejected"
    THEN /\ result' = [kind |-> "err", error |-> ts[1].error]
         /\ pc' = "done"
         /\ UNCHANGED <<document, validationErrors, emitted>>
    ELSE IF ts[1].status = "resolved"
    THEN \E errors \in (IF opts.schema THEN ErrorLists ELSE {<<>>}) :
            /\ document' = ProcessDocument(ts[1].definitions, opts)
            /\ validationErrors' = errors
            /\ emitted' = emitErrors(emitted, errors)
            /\ result' = ModuleExports(opts.output, document')
            /\ pc' = "done"
    ELSE /\ pc' = "loadSource"
         /\ UNCHANGED <<document, validationErrors, emitted, result>>

\* loadSource(this, source), line 240
StartLoadSource(opts) ==
    /\ tasks' = <<NewTask(MainFile, 0, 0)>>
    /\ options' = opts
    /\ Continue(tasks', opts)

\* loadOptions up to its first suspension, lines 171-183
LoadOptions ==
    /\ pc = "loadOptions"
    /\ IF loader.query.validate
       THEN IF loader.query.schema = ""
            THEN /\ result' = [kind |-> "err", error |-> SchemaOptionError]
                 /\ pc' = "done"
                 /\ UNCHANGED <<currentContext, options, tasks, document,
                                validationErrors, emitted>>
            ELSE /\ pc' = "findSchemaFile"
                 /\ currentContext' = loader.context
                 /\ UNCHANGED <<options, tasks, document, validationErrors,
                                emitted, result>>
       ELSE /\ StartLoadSource(ReturnedOptions(loader.query, FALSE))
            /\ UNCHANGED currentContext
    /\ UNCHANGED <<loader, source, deps, before, stage, tree>>

\* the completion of one fs.stat of findSchemaFile, lines 209-222
FindSchemaStat ==
    /\ pc = "findSchemaFile"
    /\ LET step == FindSchemaStep(currentContext, loader.context, loader.query.schema,
                                  loader.stat[currentContext])
       IN  CASE step.kind = "return" ->
                  /\ deps' = deps \cup {step.fileName}
                  /\ pc' = "readSchema"
                  /\ UNCHANGED <<currentContext, result>>
             [] step.kind = "throw" ->
                  /\ result' = [kind |-> "err", error |-> step.error]
                  /\ pc' = "done"
                  /\ UNCHANGED <<currentContext, deps>>
             [] OTHER ->
                  /\ currentContext' = step.currentContext
                  /\ UNCHANGED <<pc, deps, result>>
    /\ UNCHANGED <<loader, source, options, tasks, document, validationErrors,
                   emitted, before, stage, tree>>

\* the completion of readFile(loader, schemaPath), lines 185-196, then line 240
ReadSchema ==
    /\ pc = "readSchema"
    /\ \E outcome \in {NoError, ReadError, JsonError} :
          IF outcome = NoError
          THEN StartLoadSource(ReturnedOptions(loader.query, TRUE))
          ELSE /\ result' = [kind |-> "err", error |-> outcome]
               /\ pc' = "done"
               /\ UNCHANGED <<options, tasks, document, validationErrors, emitted>>
    /\ UNCHANGED <<loader, source, currentContext, deps, before, stage, tree>>

\* after a callback changed the tasks to ts: the loader continues if it is
\* still waiting for loadSource
AfterCallback(ts) ==
    /\ tasks' = ts
    /\ IF pc = "loadSource"
       THEN Continue(ts, options)
       ELSE UNCHANGED <<pc, document, validationErrors, emitted, result>>
    /\ UNCHANGED <<loader, source, currentContext, options, before, stage, tree>>

\* the callback of loader.resolve for import i of task t, lines 67-74, and,
\* when it is the last one, line 80
ResolveDone(t, i) ==
    /\ tasks[t].resolved[i] = "pending"
    /\ IF Resolves(tasks[t].filePaths[i])
       THEN /\ deps' = deps \cup {ResolvedPath(tasks[t].filePaths[i])}
            /\ LET ts1 == [tasks EXCEPT ![t].resolved[i] = "ok"]
                   all == \A j \in 1..Len(ts1[t].resolved) : ts1[t].resolved[j] = "ok"
               IN  AfterCallback(
                       IF ts1[t].status = "resolving" /\ all
                       THEN [ts1 EXCEPT ![t].status = "reading",
                                        ![t].contents =
                                            [j \in 1..Len(ts1[t].resolved) |-> "pending"]]
                       ELSE ts1)
       ELSE /\ deps' = deps
            /\ LET ts1 == [tasks EXCEPT ![t].resolved[i] = "failed"]
               IN  AfterCallback(
                       IF ts1[t].status = "resolving"
                       THEN Settle([ts1 EXCEPT ![t].status = "rejected",
                                               ![t].error = ResolveError], t)
                       ELSE ts1)

\* the completion of readFile for import i of task t, line 80, and, when it
\* is the last one, lines 82-84
ReadDone(t, i) ==
    /\ tasks[t].contents[i] = "pending"
    /\ deps' = deps
    /\ IF loader.files[tasks[t].filePaths[i]].readable
       THEN LET ts1 == [tasks EXCEPT ![t].contents[i] = "read"]
                all == \A j \in 1..Len(ts1[t].contents) : ts1[t].contents[j] = "read"
            IN  IF ts1[t].status = "reading" /\ all
                THEN /\ Len(tasks) + Len(ts1[t].contents) <= MaxTasks
                     /\ AfterCallback(SpawnChildren(ts1, t))
                ELSE AfterCallback(ts1)
       ELSE LET ts1 == [tasks EXCEPT ![t].contents[i] = "failed"]
            IN  AfterCallback(
                    IF ts1[t].status = "reading"
                    THEN Settle([ts1 EXCEPT ![t].status = "rejected",
                                            ![t].error = ReadError], t)
                    ELSE ts1)

Next ==
    \/ LoadOptions
    \/ FindSchemaStat
    \/ ReadSchema
    \/ \E t \in 1..Len(tasks) : \E i \in 1..Len(tasks[t].filePaths) : ResolveDone(t, i)
    \/ \E t \in 1..Len(tasks) : \E i \in 1..Len(tasks[t].filePaths) : ReadDone(t, i)

-----------------------------------------------------------------------------
(* The inputs of one loader invocation: source texts, the files behind the *)
(* import paths, the loader query, and what fs.stat answers.               *)

HashImport == <<"#", "i", "m", "p", "o", "r", "t">>
ImportA == HashImport \o <<" ", "\"", "a", "\"">>
ImportB == HashImport \o <<" ", "'", "b", "'">>
ImportUnquoted == HashImport \o <<" ", "b">>
ImportsNote == HashImport \o <<"s", " ", "\"", "a", "\"">>
BodyLine == <<"{", "}">>

DirectiveLines == {ImportA, ImportB, ImportUnquoted, ImportsNote}
ImportLines == {ImportA, ImportB, ImportUnquoted}

\* up to two directive lines above the body
DirectiveLists(lines) ==
    {<<>>} \cup {<<x>> : x \in lines} \cup {<<x, y>> : x \in lines, y \in lines}

RECURSIVE JoinLines(_)
JoinLines(lines) ==
    IF lines = <<>> THEN <<>>
    ELSE IF Len(lines) = 1 THEN Head(lines)
    ELSE Head(lines) \o <<"\n">> \o JoinLines(Tail(lines))

\* the parser puts a loc on every node
RECURSIVE Located(_)
Located(value) ==
    CASE value.t = "object" ->
           Obj([k \in DOMAIN value.v |-> Located(value.v[k])] @@ ("loc" :> Loc))
      [] value.t = "array" -> Arr([i \in 1..Len(value.v) |-> Located(value.v[i])])
      [] OTHER -> value

DefinitionsOf(name) ==
    CASE name = MainFile ->
           <<Located(OperationDefinition("Q", NestedSelections(<<"A">>)))>>
      [] name = <<"a">> ->
           <<Located(FragmentDefinition("A", FlatSelections(<<>>))),
             Located(FragmentDefinition("B", FlatSelections(<<"B">>)))>>
      [] OTHER ->
           <<Located(FragmentDefinition("A", FlatSelections(<<"C">>))),
             Located(FragmentDefinition("C", FlatSelections(<<>>)))>>

SourceText(directives) == JoinLines(directives \o <<BodyLine>>)

ParsedSource(name, directives) ==
    [text |-> SourceText(directives),
     parse |-> [ok |-> TRUE, definitions |-> DefinitionsOf(name)]]

\* a syntax error below a malformed import
BrokenSource ==
    [text |-> SourceText(<<ImportUnquoted>>) \o <<"\n", "{">>,
     parse |-> [ok |-> FALSE, definitions |-> <<>>]]

LeafSource(name) == ParsedSource(name, <<>>)

LeafFile(name) == [resolves |-> TRUE, readable |-> TRUE, source |-> LeafSource(name)]

MainSources ==
    {ParsedSource(MainFile, d) : d \in DirectiveLists(DirectiveLines)} \cup {BrokenSource}

FileStates(name) ==
    {[resolves |-> TRUE, readable |-> TRUE, source |-> src] :
        src \in {ParsedSource(name, d) :
                    d \in DirectiveLists(ImportLines)}
                  \cup {BrokenSource}}
      \cup {[resolves |-> FALSE, readable |-> FALSE, source |-> LeafSource(name)],
            [resolves |-> TRUE, readable |-> FALSE, source |-> LeafSource(name)]}

FileNames == {<<"a">>, <<"b">>}

Contexts == {<<>>, <<"p">>, <<"p", "q">>}
StatAnswers == {"file", "directory", "ENOENT"}

DefaultQuery ==
    [schema |-> "", validate |-> FALSE, output |-> "", removeUnusedFragments |-> TRUE]

Queries ==
    [schema : {"", "schema.json"}, validate : BOOLEAN,
     output : {"", "string", "document"}, removeUnusedFragments : BOOLEAN]

\* the import paths a source names, when it parses and its scan does not throw
ImportedBy(src) ==
    LET scan == Scan(src.text)
    IN  IF src.parse.ok /\ ~scan.threw
        THEN {scan.filePaths[i] : i \in 1..Len(scan.filePaths)}
        ELSE {}

\* the files import resolution can read, starting from the source
ReadableFrom(src, files) ==
    LET opens(S) == {f \in S \cap DOMAIN files : files[f].resolves /\ files[f].readable}
        direct == opens(ImportedBy(src))
        second == direct \cup opens(UNION {ImportedBy(files[f].source) : f \in direct})
    IN  second \cup opens(UNION {ImportedBy(files[f].source) : f \in second})

\* every import graph over the files, under the default query; a file that is
\* never read is the leaf file
ManyFiles ==
    /\ source \in MainSources
    /\ \E a \in FileStates(<<"a">>), b \in FileStates(<<"b">>) :
          /\ loader = [context |-> <<"p">>, query |-> DefaultQuery,
                       stat |-> [d \in Contexts |-> "ENOENT"],
                       files |-> [f \in FileNames |-> IF f = <<"a">> THEN a ELSE b]]
          /\ \A f \in FileNames :
                (f \notin ReadableFrom(source, loader.files)
                    /\ f \notin ImportedBy(source)
                    /\ \A g \in ReadableFrom(source, loader.files) :
                          f \notin ImportedBy(loader.files[g].source))
                    => loader.files[f] = LeafFile(f)

\* every query, context and stat answer, over two import graphs
ManyQueries ==
    /\ source \in {LeafSource(MainFile), ParsedSource(MainFile, <<ImportA, ImportB>>)}
    /\ \E q \in Queries, c \in Contexts, st \in [Contexts -> StatAnswers] :
          /\ ~q.validate => (c = <<"p">> /\ st = [d \in Contexts |-> "ENOENT"])
          /\ loader = [context |-> c, query |-> q, stat |-> st,
                       files |-> [f \in FileNames |-> LeafFile(f)]]

Init ==
    /\ ManyFiles \/ ManyQueries
    /\ pc = "loadOptions"
    /\ currentContext = <<>>
    /\ options = Null
    /\ tasks = <<>>
    /\ deps = {}
    /\ validationErrors = <<>>
    /\ emitted = <<>>
    /\ result = [kind |-> "none"]
    /\ document = <<>>
    /\ before = <<>>
    /\ stage = "loader"
    /\ tree = Null

Spec == Init /\ [][Next]_vars

-----------------------------------------------------------------------------
(* Reference notions for the claims about import resolution.               *)

\* the definitions the text of a file stands for: its own, then those of each
\* imported file in directive order, each expanded the same way
RECURSIVE ExpectedDefinitions(_)
RECURSIVE ExpectedOfImports(_)
ExpectedDefinitions(file) ==
    Content(file).parse.definitions \o ExpectedOfImports(Scan(Content(file).text).filePaths)

ExpectedOfImports(filePaths) ==
    IF filePaths = <<>> THEN <<>>
    ELSE ExpectedDefinitions(ResolvedPath(Head(filePaths)))
             \o ExpectedOfImports(Tail(filePaths))

\* a line whose first token is #import with no quoted path after it
MalformedImportLine(line) ==
    /\ Len(line) >= Len(HashImport)
    /\ SubSeq(line, 1, Len(HashImport)) = HashImport
    /\ Len(line) > Len(HashImport) => line[Len(HashImport) + 1] = " "
    /\ ~(/\ Len(line) >= Len(HashImport) + 4
         /\ line[Len(HashImport) + 2] \in Quotes
         /\ \E j \in (Len(HashImport) + 4)..Len(line) : line[j] \in Quotes)

HasMalformedImport(text) ==
    LET lines == SplitLines(text)
    IN  \E i \in 1..Len(lines) : MalformedImportLine(lines[i])

\* C1: whatever the order of the resolve and read completions, a resolved
\* loadSource holds the file's own definitions followed by those of its imports
\* in directive order, each import expanded depth-first the same way.
C1_DirectiveOrder ==
    \A t \in 1..Len(tasks) :
        tasks[t].status = "resolved" =>
            tasks[t].definitions = ExpectedDefinitions(tasks[t].file)

\* the second import of the source completed at once while the first still
\* had two imports of its own to resolve and read
C1_Witness ==
    /\ result.kind = "ok"
    /\ Len(tasks) = 5
    /\ tasks[1].nodes = <<2, 3>>
    /\ tasks[2].nodes = <<4, 5>>
    /\ tasks[2].file # tasks[3].file
    /\ Len(tasks[1].definitions) = 9

\* C5 as claimed: a reached file with a malformed #import line makes the
\* invocation fail with the malformed-import error, and none of that file's
\* imports is read or expanded.
C5_FailsWithMalformedError ==
    \A t \in 1..Len(tasks) :
        HasMalformedImport(Content(tasks[t].file).text) =>
            /\ result = [kind |-> "err", error |-> MalformedImportError]
            /\ \A i \in 1..Len(tasks[t].filePaths) :
                  tasks[t].contents[i] = "none" /\ tasks[t].nodes[i] = 0

\* no file reached so far failed to parse, to resolve or to be read
NoOtherFailure ==
    \A u \in 1..Len(tasks) :
        /\ Content(tasks[u].file).parse.ok
        /\ \A i \in 1..Len(tasks[u].filePaths) :
              tasks[u].resolved[i] # "failed" /\ tasks[u].contents[i] # "failed"

\* C5 as amended: the invocation fails, with the malformed-import error unless
\* a parse, resolve or read failure is there too, and none of that file's
\* imports is read or expanded.
C5_MalformedFails ==
    \A t \in 1..Len(tasks) :
        HasMalformedImport(Content(tasks[t].file).text) =>
            /\ result.kind = "err"
            /\ NoOtherFailure => result.error = MalformedImportError
            /\ \A i \in 1..Len(tasks[t].filePaths) :
                  tasks[t].contents[i] = "none" /\ tasks[t].nodes[i] = 0

\* an imported file with a directive before the malformed one: its resolution
\* was launched and completed, yet nothing of it was read
C5_Witness ==
    \E t \in 2..Len(tasks) :
        /\ HasMalformedImport(Content(tasks[t].file).text)
        /\ Len(tasks[t].filePaths) = 1
        /\ tasks[t].resolved[1] = "ok"
        /\ tasks[t].contents[1] = "none"
        /\ result = [kind |-> "err", error |-> MalformedImportError]

\* C6: with a schema built, once loadSource has resolved the loader has emitted
\* exactly the validator's errors, one diagnostic each, and has called back
\* with the serialized document, which does not depend on those errors.
C6_ValidationNonFatal ==
    (tasks # <<>> /\ options.schema /\ tasks[1].status = "resolved") =>
        /\ emitted = validationErrors
        /\ result = ModuleExports(options.output,
                                  ProcessDocument(ExpectedDefinitions(MainFile), options))

\* two validation errors were emitted and the document was still delivered
C6_Witness ==
    /\ tasks # <<>>
    /\ options.schema
    /\ Len(validationErrors) = 2
    /\ validationErrors[1] # validationErrors[2]
    /\ emitted = validationErrors
    /\ result.kind = "ok"
    /\ result.module.exports = "document"
    /\ Len(result.module.definitions) = 3

\* the directories from dir up to the root, dir included
Ancestors(dir) == {SubSeq(dir, 1, n) : n \in 0..Len(dir)}

\* the nearest directory, from the context upwards, where the schema is a file
NearestWithFile(dirs) ==
    CHOOSE d \in dirs : loader.stat[d] = "file"
                            /\ \A e \in dirs : loader.stat[e] = "file" => Len(e) <= Len(d)

SearchesSchema == stage = "loader" /\ loader.query.validate /\ loader.query.schema # ""

\* C8: findSchemaFile looks in the context first and then in each parent, returns
\* the schema path in the nearest directory where it is a regular file, and
\* otherwise fails naming the schema and the original context.
C8_NearestSchemaFile ==
    SearchesSchema =>
        LET dirs == Ancestors(loader.context)
            found == \E d \in dirs : loader.stat[d] = "file"
        IN  /\ pc = "findSchemaFile" =>
                  /\ currentContext \in dirs
                  /\ \A d \in dirs : Len(d) > Len(currentContext) => loader.stat[d] # "file"
            /\ pc \in {"readSchema", "loadSource"} =>
                  /\ found
                  /\ Join(NearestWithFile(dirs), loader.query.schema) \in deps
                  /\ \A d \in dirs : d # NearestWithFile(dirs) =>
                        Join(d, loader.query.schema) \notin deps
            /\ (pc = "done" /\ ~found) =>
                  result = [kind |-> "err",
                            error |-> [message |-> "Could not find schema file",
                                       schemaPath |-> loader.query.schema,
                                       context |-> loader.context]]

\* the search climbed from p/q through p to the root without finding the file
C8_Witness ==
    /\ SearchesSchema
    /\ loader.context = <<"p", "q">>
    /\ loader.stat[<<"p", "q">>] = "directory"
    /\ loader.stat[<<"p">>] = "ENOENT"
    /\ pc = "done"
    /\ result.kind = "err"
    /\ result.error.context = <<"p", "q">>
    /\ result.error.schemaPath = "schema.json"

\* the import paths the directive lines of a text name, malformed lines aside
DirectivePaths(text) ==
    LET lines == SplitLines(text)
        scanned == [i \in 1..Len(lines) |-> ScanLineNoThrow(lines[i])]
    IN  {scanned[i].filePath : i \in {j \in 1..Len(lines) : scanned[j].kind = "import"}}

\* the import paths reachable from a set of paths in at most n further hops
RECURSIVE ImportClosure(_, _)
ImportClosure(paths, n) ==
    IF n = 0 THEN paths
    ELSE LET r == ImportClosure(paths, n - 1)
         IN  r \cup UNION {DirectivePaths(loader.files[f].source.text) :
                              f \in r \cap DOMAIN loader.files}

ReachablePaths == ImportClosure(DirectivePaths(source.text), Cardinality(FileNames))

\* a file reachable from the source transitively imports itself
CyclicImports ==
    \E f \in ReachablePaths \cap DOMAIN loader.files :
        f \in ImportClosure(DirectivePaths(loader.files[f].source.text),
                            Cardinality(FileNames))

AllResolveAndReadSucceed ==
    \A f \in ReachablePaths :
        f \in DOMAIN loader.files /\ loader.files[f].resolves /\ loader.files[f].readable

\* the source and every reachable file parse and hold no malformed #import line
AllScansSucceed ==
    /\ source.parse.ok /\ ~HasMalformedImport(source.text)
    /\ \A f \in ReachablePaths \cap DOMAIN loader.files :
          /\ loader.files[f].source.parse.ok
          /\ ~HasMalformedImport(loader.files[f].source.text)

PendingCallbacks ==
    {<<t, i>> \in (1..Len(tasks)) \X (1..2) :
        /\ i <= Len(tasks[t].filePaths)
        /\ tasks[t].resolved[i] = "pending" \/ tasks[t].contents[i] = "pending"}

\* C10 as claimed: with a cycle among the reachable imports and every resolve
\* and read succeeding, the loader never calls back, with output or failure.
C10_CycleNeverCallsBack ==
    (stage = "loader" /\ tasks # <<>> /\ result.kind # "none")
        => ~(CyclicImports /\ AllResolveAndReadSucceed)

\* C10 as amended: when, besides, every reachable file parses and has no
\* malformed #import line, the loader never calls back and resolutions or reads
\* stay outstanding for ever.
C10_CycleNeverCompletes ==
    (stage = "loader" /\ tasks # <<>>
        /\ ~(result.kind = "none" /\ pc = "loadSource" /\ PendingCallbacks # {}))
        => ~(CyclicImports /\ AllResolveAndReadSucceed /\ AllScansSucceed)

\* the same file is being expanded a third time, nothing delivered
C10_Witness ==
    /\ stage = "loader"
    /\ CyclicImports /\ AllResolveAndReadSucceed /\ AllScansSucceed
    /\ Len(tasks) = MaxTasks
    /\ \E t, u, w \in 1..Len(tasks) :
          /\ t < u /\ u < w
          /\ tasks[t].file = tasks[u].file /\ tasks[u].file = tasks[w].file
          /\ tasks[u].parent = t /\ tasks[w].parent = u
    /\ result.kind = "none"

====
